---------------------------- MODULE Spec2Model ----------------------------
(***************************************************************************)
(* Better Windows Media Controller (src/main.py): the media-session        *)
(* bridge.  The module models                                              *)
(*   - the SMTC helpers _pick_best_session, _ensure_session, smtc_action,  *)
(*     get_cover_surface and query_now_playing as operators over an        *)
(*     explicit picture of the OS session registry;                        *)
(*   - AsyncRunner.run as a bounded wait that either returns the           *)
(*     coroutine's outcome or raises TimeoutError and leaves the coroutine *)
(*     running on the background loop;                                     *)
(*   - the event handlers of main(): the REFRESH_EVENT poll, the clicks on *)
(*     prev / next / play_pause / mc, and the end of a frame (the          *)
(*     Minecraft-mode timer check and the button enabling from caps).      *)
(* Python's None is the empty sequence and a present value x is <<x>>.     *)
(***************************************************************************)
EXTENDS Integers, Sequences, FiniteSets, TLC

VARIABLES
    manager_cache,          \* manager_cache["manager"]: None or <<handle>>
    MINECRAFT_MODE,         \* automation ("delay mode") enabled
    last_track_key,         \* None or <<key>>
    mc_resume_at,           \* None or <<epoch seconds>>
    mc_ignore_next_change,  \* BOOLEAN
    shown,                  \* title, artist, source, caps, is_playing, cover_surf
    btn_enabled,            \* Button.enabled of prev / play_pause / next
    now,                    \* time.time(), in seconds
    current,                \* OS: index of the manager's current session, 0 if none
    sessions,               \* OS: the enumerated sessions
    late,                   \* coroutines still running after their run() timed out
    ev,                     \* history: what the last handler did
    armed                   \* history: the Armed state of the delay-mode engine

vars == <<manager_cache, MINECRAFT_MODE, last_track_key, mc_resume_at,
          mc_ignore_next_change, shown, btn_enabled, now, current, sessions,
          late, ev, armed>>

None == <<>>
Some(x) == <<x>>

(***************************************************************************)
(* Bounds of the model.                                                    *)
(***************************************************************************)
\* the clock stops at MaxTime seconds
MaxTime == 600
\* seconds that pass in one step of the clock
TickSecs == 300
\* coroutines that may be left running after a timeout, at any one time
MaxLate == 1
\* sessions enumerated by the manager in the selection specification
MaxSessions == 2

(***************************************************************************)
(* Program constants.                                                      *)
(***************************************************************************)
MC_DELAY == 300
NoSession == 0

(***************************************************************************)
(* The OS picture.  A manager handle has an identity and a health: a       *)
(* handle gone stale makes get_current_session ("cur_fails") or            *)
(* get_sessions ("enum_fails") raise.  A session has its media properties, *)
(* a playback status, its control flags ("T", "F", or "absent" when the    *)
(* attribute is not exposed) and says whether its queries raise.           *)
(***************************************************************************)
Health == {"ok", "cur_fails", "enum_fails"}

Handle(i, h) == [id |-> i, health |-> h]

TrackA == [title |-> "A", artist |-> "X", album_artist |-> "", source |-> "App",
           thumb |-> "png"]
TrackB == [title |-> "B", artist |-> "Y", album_artist |-> "", source |-> "App",
           thumb |-> "webp"]
TrackU == [title |-> "", artist |-> "", album_artist |-> "Z", source |-> "Web",
           thumb |-> "absent"]

CtlAll == [play |-> "T", pause |-> "T", next |-> "T", prev |-> "T", toggle |-> "T"]
CtlNoSkip == [play |-> "T", pause |-> "T", next |-> "F", prev |-> "F", toggle |-> "T"]
CtlOff == [play |-> "F", pause |-> "F", next |-> "F", prev |-> "F", toggle |-> "F"]
CtlAbsent == [play |-> "absent", pause |-> "absent", next |-> "absent",
              prev |-> "absent", toggle |-> "absent"]

Session(t, st, c) ==
    [track |-> t, status |-> st, ctl |-> c, has_toggle |-> TRUE,
     props_ok |-> TRUE, pbi_ok |-> TRUE, disp_ok |-> TRUE]

\* faulty variant: a flag that is not exposed counts as false
getattrNoDefault(v, default) == v = "T"

\* getattr(obj, name, default) on a control flag
getattr(v, default) == IF v = "absent" THEN default ELSE v = "T"

(***************************************************************************)
(* _pick_best_session (src/main.py 93-107).                                *)
(***************************************************************************)
Raised == [raised |-> TRUE, session |-> NoSession]
Returned(s) == [raised |-> FALSE, session |-> s]

\* the for loop of lines 100-106, from index i on: the first session whose
\* status reads PLAYING, a session whose get_playback_info raises being skipped
RECURSIVE FirstPlaying(_, _)
FirstPlaying(ss, i) ==
    IF i > Len(ss) THEN NoSession
    ELSE IF ss[i].pbi_ok /\ ss[i].status = "PLAYING" THEN i
    ELSE FirstPlaying(ss, i + 1)

\* faulty variant: the loop over the Playing sessions is left out
PickFirstOnly(health, cur, ss) ==
    IF health = "cur_fails" THEN Raised
    ELSE IF cur # NoSession THEN Returned(cur)
    ELSE IF health = "enum_fails" THEN Raised
    ELSE IF ss = <<>> THEN Returned(NoSession)
    ELSE Returned(1)

_pick_best_session(health, cur, ss) ==
    IF health = "cur_fails" THEN Raised
    ELSE IF cur # NoSession THEN Returned(cur)
    ELSE IF health = "enum_fails" THEN Raised
    ELSE IF ss = <<>> THEN Returned(NoSession)
    ELSE IF FirstPlaying(ss, 1) # NoSession THEN Returned(FirstPlaying(ss, 1))
    ELSE Returned(1)

(***************************************************************************)
(* _ensure_session (src/main.py 110-117).  o.acq1 and o.acq2 are what the  *)
(* OS answers to the first and the second _get_manager call of the         *)
(* coroutine: None when request_async raises, <<handle>> otherwise.  The   *)
(* result carries the new cache, the outcome, and the selection attempts   *)
(* and acquisitions made.                                                  *)
(***************************************************************************)
EnsureResult(c, r, n, acq) ==
    [cache |-> c, raised |-> r.raised, session |-> r.session,
     attempts |-> n, acquires |-> acq]

\* lines 113-117, entered with a handle in the cache
EnsureTry(c, o, cur, ss, acq) ==
    LET r1 == _pick_best_session(c[1].health, cur, ss) IN
    IF ~r1.raised THEN EnsureResult(c, r1, 1, acq)
    ELSE IF o.acq2 = None THEN EnsureResult(c, Raised, 1, Append(acq, None))
    ELSE EnsureResult(o.acq2,
                      _pick_best_session(o.acq2[1].health, cur, ss),
                      2, Append(acq, o.acq2))

\* faulty variant: the except branch of lines 115-117 is left out
EnsureNoRetry(cache, o, cur, ss) ==
    IF cache = None
    THEN IF o.acq1 = None
         THEN EnsureResult(cache, Raised, 0, <<None>>)
         ELSE EnsureResult(o.acq1, _pick_best_session(o.acq1[1].health, cur, ss),
                           1, <<o.acq1>>)
    ELSE EnsureResult(cache, _pick_best_session(cache[1].health, cur, ss), 1, <<>>)

\* faulty variant: a manager is acquired on every call
EnsureReacquires(cache, o, cur, ss) ==
    IF o.acq1 = None
    THEN EnsureResult(cache, Raised, 0, <<None>>)
    ELSE EnsureTry(o.acq1, o, cur, ss, <<o.acq1>>)

_ensure_session(cache, o, cur, ss) ==
    IF cache = None
    THEN IF o.acq1 = None
         THEN EnsureResult(cache, Raised, 0, <<None>>)
         ELSE EnsureTry(o.acq1, o, cur, ss, <<o.acq1>>)
    ELSE EnsureTry(cache, o, cur, ss, <<>>)


(***************************************************************************)
(* smtc_action (src/main.py 120-177).  o.ack is the session's answer to    *)
(* the transport call: "ok" (acknowledged), "refused" (False) or "raise".  *)
(* The result carries the new cache, (ok, msg), the transport call made    *)
(* ("none" if no call reached the session) and the session it went to.     *)
(***************************************************************************)
ActionResult(c, ok, msg, call, s, e) ==
    [cache |-> c, raised |-> FALSE, ok |-> ok, msg |-> msg, call |-> call,
     session |-> s, attempts |-> e.attempts, acquires |-> e.acquires]

\* an exception leaves the try block of lines 121-171; msg is what line 174
\* would make of it
ActionRaised(c, msg, call, s, e) ==
    [ActionResult(c, FALSE, msg, call, s, e) EXCEPT !.raised = TRUE]

\* ok = await session.try_..._async(); return bool(ok), (good if ok else bad)
Transport(c, o, call, s, e, good, bad) ==
    IF o.ack = "raise" THEN ActionRaised(c, "RuntimeError: call", call, s, e)
    ELSE IF o.ack = "ok" THEN ActionResult(c, TRUE, good, call, s, e)
    ELSE ActionResult(c, FALSE, bad, call, s, e)

\* faulty variant: the combined toggle is never used
callableNever(f) == FALSE

\* line 135: callable(toggle), f saying whether the session has the method
callable(f) == f

\* lines 130-171, with the session selected
ActOnSession(c, action, o, ss, i, e) ==
    LET s == ss[i]
        ctl == s.ctl
    IN
    IF ~s.pbi_ok THEN ActionRaised(c, "RuntimeError: playback info", "none", i, e)
    ELSE IF action = "play_pause" THEN
        IF callable(s.has_toggle)
        THEN Transport(c, o, "toggle", i, e, "Toggled Play/Pause", "Toggle Play/Pause failed")
        ELSE IF ~(getattr(ctl.play, TRUE) \/ getattr(ctl.pause, TRUE))
        THEN ActionResult(c, FALSE, "Play/Pause not supported by this app/content", "none", i, e)
        ELSE IF s.status = "PLAYING" /\ getattr(ctl.pause, TRUE)
        THEN Transport(c, o, "pause", i, e, "Pause", "Pause failed")
        ELSE IF getattr(ctl.play, TRUE)
        THEN Transport(c, o, "play", i, e, "Play", "Play failed")
        ELSE ActionResult(c, FALSE, "Play/Pause currently disabled", "none", i, e)
    ELSE IF action = "play" THEN Transport(c, o, "play", i, e, "Play", "Play failed")
    ELSE IF action = "pause" THEN Transport(c, o, "pause", i, e, "Pause", "Pause failed")
    ELSE IF action = "next" THEN
        IF ~getattr(ctl.next, TRUE)
        THEN ActionResult(c, FALSE, "Next not supported for this content", "none", i, e)
        ELSE Transport(c, o, "next", i, e, "Next", "Skip next failed")
    ELSE IF action = "prev" THEN
        IF ~getattr(ctl.prev, TRUE)
        THEN ActionResult(c, FALSE, "Previous not supported for this content", "none", i, e)
        ELSE Transport(c, o, "prev", i, e, "Previous", "Skip previous failed")
    ELSE ActionResult(c, FALSE, "Unknown action", "none", i, e)

\* the try block of smtc_action, lines 122-171
smtc_action_try(cache, action, o, cur, ss) ==
    IF action = "refresh"
    THEN IF o.acq1 = None
         THEN ActionRaised(cache, "RuntimeError: request_async", "none", NoSession,
                           [attempts |-> 0, acquires |-> <<None>>])
         ELSE ActionResult(o.acq1, TRUE, "Refreshed sessions", "none", NoSession,
                           [attempts |-> 0, acquires |-> <<o.acq1>>])
    ELSE LET e == _ensure_session(cache, o, cur, ss) IN
         IF e.raised
         THEN ActionRaised(e.cache, "RuntimeError: session", "none", NoSession, e)
         ELSE IF e.session = NoSession
         THEN ActionResult(e.cache, FALSE, "No media sessions detected", "none", NoSession, e)
         ELSE ActOnSession(e.cache, action, o, ss, e.session, e)

\* faulty variant: no except clause
Uncaught(r) == r

\* lines 173-174: except Exception as e: return False, f"{type(e).__name__}: {e}"
Caught(r) == IF r.raised THEN [r EXCEPT !.raised = FALSE, !.ok = FALSE] ELSE r

smtc_action(cache, action, o, cur, ss) ==
    Caught(smtc_action_try(cache, action, o, cur, ss))

(***************************************************************************)
(* What an acknowledged transport call does to the OS sessions: pause and  *)
(* play set the status, toggle flips it, a skip moves the session to the   *)
(* track o.nt (which may be the track it is on: the end of a playlist).    *)
(***************************************************************************)
OsEffect(ss, r, o) ==
    IF r.call = "none" \/ o.ack # "ok" THEN ss
    ELSE IF r.call = "pause" THEN [ss EXCEPT ![r.session].status = "PAUSED"]
    ELSE IF r.call = "play" THEN [ss EXCEPT ![r.session].status = "PLAYING"]
    ELSE IF r.call = "toggle"
    THEN [ss EXCEPT ![r.session].status = IF @ = "PLAYING" THEN "PAUSED" ELSE "PLAYING"]
    ELSE [ss EXCEPT ![r.session].track = o.nt]

(***************************************************************************)
(* get_cover_surface (src/main.py 180-224).  The thumbnail of a track is   *)
(* "absent" (no reference), "stream_err" (the stream raises), "empty"      *)
(* (zero bytes read), "png" (pygame decodes it), "webp" (only Pillow       *)
(* decodes it) or "junk" (neither does).                                   *)
(***************************************************************************)
\* what each decoder can load: pygame's loaders know "png", Pillow knows "png"
\* and "webp", nobody knows "junk"
Decodes(decoder, raw) ==
    IF decoder = "pygame" THEN raw = "png" ELSE raw \in {"png", "webp"}

\* faulty variant: Pillow is tried first
decodePillowFirst(raw) ==
    IF Decodes("pillow", raw)
    THEN [surface |-> Some("pillow"), tried |-> <<"pillow">>]
    ELSE IF Decodes("pygame", raw)
    THEN [surface |-> Some("pygame"), tried |-> <<"pillow", "pygame">>]
    ELSE [surface |-> None, tried |-> <<"pillow", "pygame">>]

\* lines 205-221: pygame.image.load, and Image.open only when it raised; both
\* exceptions are caught
decode(raw) ==
    IF Decodes("pygame", raw)
    THEN [surface |-> Some("pygame"), tried |-> <<"pygame">>]
    ELSE IF Decodes("pillow", raw)
    THEN [surface |-> Some("pillow"), tried |-> <<"pygame", "pillow">>]
    ELSE [surface |-> None, tried |-> <<"pygame", "pillow">>]

NoCover == [surface |-> None, tried |-> <<>>]

\* lines 186-224, with the decoders tried
CoverSteps(s) ==
    IF ~s.props_ok THEN NoCover
    ELSE IF s.track.thumb = "absent" THEN NoCover
    ELSE IF s.track.thumb = "stream_err" THEN NoCover
    ELSE IF s.track.thumb = "empty" THEN NoCover
    ELSE decode(s.track.thumb)

get_cover_surface(s) == CoverSteps(s).surface

(***************************************************************************)
(* query_now_playing (src/main.py 267-319).  The value returned is the     *)
(* tuple as the code builds it: eight items when there is no session,      *)
(* seven otherwise.                                                        *)
(***************************************************************************)
Caps(pp, n, p) == [play_pause |-> pp, next |-> n, prev |-> p]

\* faulty variant: the controls stay enabled when nothing is playing
NothingPlayingEnabled ==
    <<"Nothing playing", "", "", Caps(TRUE, TRUE, TRUE), FALSE, None, FALSE, None>>

NothingPlaying ==
    <<"Nothing playing", "", "", Caps(FALSE, FALSE, FALSE), FALSE, None, FALSE, None>>

\* a or b, on strings
StrOr(a, b) == IF a # "" THEN a ELSE b

\* the queries query_now_playing makes on the session it selected
SessionQueries == {"props", "source", "pbi", "cover"}

QueryResult(e, t, qs) ==
    [cache |-> e.cache, raised |-> FALSE, tuple |-> t, session |-> e.session,
     queries |-> qs, attempts |-> e.attempts, acquires |-> e.acquires]

\* faulty variant: a failing get_playback_info disables every control
SessionTupleStrict(s) ==
    LET title == IF s.props_ok THEN StrOr(s.track.title, "Unknown Title")
                 ELSE "Unknown Title"
        artist == IF s.props_ok
                  THEN StrOr(s.track.artist, StrOr(s.track.album_artist, ""))
                  ELSE ""
        has_thumb == IF s.props_ok THEN s.track.thumb # "absent" ELSE FALSE
        disp == IF s.disp_ok THEN s.track.source ELSE ""
        is_playing == IF s.pbi_ok THEN s.status = "PLAYING" ELSE FALSE
        caps == IF s.pbi_ok
                THEN Caps(getattr(s.ctl.toggle, FALSE) \/ getattr(s.ctl.play, FALSE)
                            \/ getattr(s.ctl.pause, FALSE),
                          getattr(s.ctl.next, FALSE),
                          getattr(s.ctl.prev, FALSE))
                ELSE Caps(FALSE, FALSE, FALSE)
    IN <<title, artist, disp, caps, is_playing, get_cover_surface(s), has_thumb>>

SessionTuple(s) ==
    LET title == IF s.props_ok THEN StrOr(s.track.title, "Unknown Title")
                 ELSE "Unknown Title"
        artist == IF s.props_ok
                  THEN StrOr(s.track.artist, StrOr(s.track.album_artist, ""))
                  ELSE ""
        has_thumb == IF s.props_ok THEN s.track.thumb # "absent" ELSE FALSE
        disp == IF s.disp_ok THEN s.track.source ELSE ""
        is_playing == IF s.pbi_ok THEN s.status = "PLAYING" ELSE FALSE
        caps == IF s.pbi_ok
                THEN Caps(getattr(s.ctl.toggle, FALSE) \/ getattr(s.ctl.play, FALSE)
                            \/ getattr(s.ctl.pause, FALSE),
                          getattr(s.ctl.next, FALSE),
                          getattr(s.ctl.prev, FALSE))
                ELSE Caps(TRUE, TRUE, TRUE)
    IN <<title, artist, disp, caps, is_playing, get_cover_surface(s), has_thumb>>

query_now_playing(cache, o, cur, ss) ==
    LET e == _ensure_session(cache, o, cur, ss) IN
    IF e.raised
    THEN [cache |-> e.cache, raised |-> TRUE, tuple |-> <<>>, session |-> NoSession,
          queries |-> {}, attempts |-> e.attempts, acquires |-> e.acquires]
    ELSE IF e.session = NoSession THEN QueryResult(e, NothingPlaying, {})
    ELSE QueryResult(e, SessionTuple(ss[e.session]), SessionQueries)

\* f"{t}|{a}|{s}"
TrackKey(t, a, s) == t \o "|" \o a \o "|" \o s

(***************************************************************************)
(* AsyncRunner.run (src/main.py 66-71) on smtc_action and on               *)
(* query_now_playing.  o.timely says whether the coroutine finishes within *)
(* the timeout.  If it does, its effects on manager_cache and on the OS    *)
(* are in place when run returns; if not, run raises TimeoutError, nothing *)
(* has happened yet and the coroutine stays on the background loop.        *)
(***************************************************************************)
\* faulty variant: the timeout cancels the coroutine
RunActionCancels(cache, action, o, cur, ss) ==
    LET r == smtc_action(cache, action, o, cur, ss) IN
    IF o.timely
    THEN [timeout |-> FALSE, ok |-> r.ok, msg |-> r.msg, call |-> r.call,
          cache |-> r.cache, sessions |-> OsEffect(ss, r, o), late |-> <<>>]
    ELSE [timeout |-> TRUE, ok |-> FALSE, msg |-> "TimeoutError", call |-> "none",
          cache |-> cache, sessions |-> ss, late |-> <<>>]

RunAction(cache, action, o, cur, ss) ==
    LET r == smtc_action(cache, action, o, cur, ss) IN
    IF o.timely
    THEN [timeout |-> FALSE, ok |-> r.ok, msg |-> r.msg, call |-> r.call,
          cache |-> r.cache, sessions |-> OsEffect(ss, r, o), late |-> <<>>]
    ELSE [timeout |-> TRUE, ok |-> FALSE, msg |-> "TimeoutError", call |-> "none",
          cache |-> cache, sessions |-> ss, late |-> <<action>>]

\* an entry of the history of dispatched commands
Cmd(action, r) ==
    [action |-> action,
     result |-> IF r.timeout THEN "timeout" ELSE IF r.ok THEN "ok" ELSE "failed"]

(***************************************************************************)
(* The answers the OS may give during one coroutine.                       *)
(***************************************************************************)
H0 == Handle(0, "ok")

SpecTracks == {TrackA, TrackB}

Acks == {"ok", "refused", "raise"}

\* to the handlers a refused call and a raising one are the same (False, msg)
SpecAcks == {"ok", "refused"}

Oracle(timely, acq1, acq2, ack, nt) ==
    [timely |-> timely, acq1 |-> acq1, acq2 |-> acq2, ack |-> ack, nt |-> nt]

NoOracle == Oracle(TRUE, None, None, "refused", TrackA)

\* a timeout is possible while fewer than MaxLate coroutines are left running
Untimely == IF Len(late) < MaxLate THEN {Oracle(FALSE, None, None, "refused", TrackA)}
            ELSE {}

\* _get_manager is called only when the cache holds no healthy handle; with a
\* healthy one its answer is immaterial
Acqs == IF manager_cache # None /\ manager_cache[1].health = "ok" THEN {None}
        ELSE {None, Some(H0)}

QueryOracles ==
    {Oracle(TRUE, a, a, "ok", TrackA) : a \in Acqs} \cup Untimely

\* for play, pause and play_pause
ActionOracles ==
    {Oracle(TRUE, a, a, k, TrackA) : a \in Acqs, k \in SpecAcks} \cup Untimely

\* for next and prev: the track matters when the skip is acknowledged
SkipOracles ==
    {Oracle(TRUE, a, a, "ok", t) : a \in Acqs, t \in SpecTracks}
        \cup {Oracle(TRUE, a, a, k, TrackA) : a \in Acqs, k \in SpecAcks \ {"ok"}}
        \cup Untimely

(***************************************************************************)
(* History.  ev describes the last handler: its name, whether the user's   *)
(* command was issued (the button was enabled), how the fetch of a poll    *)
(* ended, the key it computed, the commands it dispatched, and whether it  *)
(* cancelled the timer for a manual resume; pre holds the automation state  *)
(* the handler started from.                                               *)
(***************************************************************************)
Pre == [resume |-> mc_resume_at, ignore |-> mc_ignore_next_change,
        key |-> last_track_key]

Ev(step, issued, fetch, key, cmds, cancel) ==
    [step |-> step, issued |-> issued, fetch |-> fetch, key |-> key, cmds |-> cmds,
     cancel |-> cancel, pre |-> Pre, sel |-> None]

Quiet(step) == Ev(step, FALSE, "none", None, <<>>, FALSE)

(***************************************************************************)
(* main(): the state before the main loop (src/main.py 698-717) and the    *)
(* initial SMTC query (756-763).                                           *)
(***************************************************************************)
Loading == [title |-> "Loading", artist |-> "", source |-> "",
            caps |-> Caps(TRUE, TRUE, TRUE), is_playing |-> FALSE, cover_surf |-> None]

\* title, artist, source, caps, is_playing, cover_surf = t, a, s, c, playing, cov
Shown(t) == [title |-> t[1], artist |-> t[2], source |-> t[3], caps |-> t[4],
             is_playing |-> t[5], cover_surf |-> t[6]]

\* t, a, s, c, playing, cov, has_thumb = <the tuple> raises ValueError unless the
\* tuple has seven items
Unpacks(t) == Len(t) = 7

SpecSessions == {<<>>} \cup
    {<<Session(t, st, CtlAll)>> : t \in SpecTracks, st \in {"PLAYING", "PAUSED"}}

InitialQuery(oq, ss) ==
    LET q == query_now_playing(None, oq, Len(ss), ss)
        done == oq.timely /\ ~q.raised /\ Unpacks(q.tuple)
    IN
    /\ manager_cache = IF oq.timely THEN q.cache ELSE None
    /\ late = IF oq.timely THEN <<>> ELSE <<"query">>
    /\ shown = IF done THEN Shown(q.tuple) ELSE Loading
    /\ last_track_key = IF done
                        THEN Some(TrackKey(q.tuple[1], q.tuple[2], q.tuple[3]))
                        ELSE None
    /\ ev = [step |-> "initial", issued |-> FALSE,
             fetch |-> IF ~oq.timely THEN "timeout" ELSE IF q.raised THEN "raised"
                       ELSE IF Unpacks(q.tuple) THEN "ok" ELSE "unpack",
             key |-> None, cmds |-> <<>>, cancel |-> FALSE,
             pre |-> [resume |-> None, ignore |-> FALSE, key |-> None], sel |-> None]

Init ==
    /\ MINECRAFT_MODE = FALSE
    /\ mc_resume_at = None
    /\ mc_ignore_next_change = FALSE
    /\ btn_enabled = Caps(TRUE, TRUE, TRUE)
    /\ now = 0
    /\ armed = FALSE
    /\ sessions \in SpecSessions
    /\ current = Len(sessions)
    /\ \E oq \in {Oracle(TRUE, a, a, "ok", TrackA) : a \in {None, Some(H0)}}
                 \cup {Oracle(FALSE, None, None, "refused", TrackA)} :
           InitialQuery(oq, sessions)

(***************************************************************************)
(* The REFRESH_EVENT handler (src/main.py 781-809).                        *)
(***************************************************************************)
\* line 789: the poll detects a track change
TrackChanged(ltk, new_key) == ltk # None /\ new_key # ltk[1]

\* faulty variant: mc_ignore_next_change is not looked at
ArmsAlsoIgnored(changed, mode, ignore) == changed /\ mode

\* line 791: the change goes through the pause / arm path
ArmsOn(changed, mode, ignore) == changed /\ mode /\ ~ignore

\* faulty variant: the deadline is counted from the start, not from now
ResumeTimeStale(t) == MC_DELAY

\* line 802
ResumeTime(t) == t + MC_DELAY

\* faulty variant: a failed poll blanks the display
RefreshFailedBlanks(fetch, cache, key) ==
    /\ manager_cache' = cache
    /\ shown' = Shown(NothingPlaying)
    /\ ev' = Ev("refresh", FALSE, fetch, key, <<>>, FALSE)
    /\ UNCHANGED <<MINECRAFT_MODE, last_track_key, mc_resume_at, mc_ignore_next_change,
                   btn_enabled, now, current, sessions, armed>>

RefreshFailed(fetch, cache, key) ==
    /\ manager_cache' = cache
    /\ ev' = Ev("refresh", FALSE, fetch, key, <<>>, FALSE)
    /\ UNCHANGED <<MINECRAFT_MODE, last_track_key, mc_resume_at, mc_ignore_next_change,
                   shown, btn_enabled, now, current, sessions, armed>>

RefreshEvent ==
    \E oq \in QueryOracles :
        LET q == query_now_playing(manager_cache, oq, current, sessions) IN
        IF ~oq.timely
        THEN late' = Append(late, "query") /\ RefreshFailed("timeout", manager_cache, None)
        ELSE IF q.raised
        THEN late' = late /\ RefreshFailed("raised", q.cache, None)
        ELSE IF ~Unpacks(q.tuple)
        THEN late' = late /\ RefreshFailed("unpack", q.cache,
                                         Some(TrackKey(q.tuple[1], q.tuple[2], q.tuple[3])))
        ELSE
            LET new_key == TrackKey(q.tuple[1], q.tuple[2], q.tuple[3])
                changed == TrackChanged(last_track_key, new_key)
                arm == ArmsOn(changed, MINECRAFT_MODE, mc_ignore_next_change)
            IN
            \E op \in (IF arm THEN ActionOracles ELSE {NoOracle}) :
                LET p == RunAction(q.cache, "pause", op, current, sessions) IN
                /\ manager_cache' = IF arm THEN p.cache ELSE q.cache
                /\ sessions' = IF arm THEN p.sessions ELSE sessions
                /\ late' = IF arm THEN late \o p.late ELSE late
                /\ mc_resume_at' = IF arm THEN Some(ResumeTime(now)) ELSE mc_resume_at
                /\ mc_ignore_next_change' = IF changed THEN FALSE
                                            ELSE mc_ignore_next_change
                /\ last_track_key' = IF changed THEN Some(new_key) ELSE last_track_key
                /\ shown' = Shown(q.tuple)
                /\ armed' = IF arm THEN TRUE ELSE armed
                /\ ev' = Ev("refresh", FALSE, "ok", Some(new_key),
                            IF arm THEN <<Cmd("pause", p)>> ELSE <<>>, FALSE)
                /\ UNCHANGED <<MINECRAFT_MODE, btn_enabled, now, current>>

(***************************************************************************)
(* The clicks (src/main.py 822-894).  A click on a disabled transport      *)
(* button does nothing (line 827).                                         *)
(***************************************************************************)
Blocked(action) ==
    /\ ev' = Quiet(action)
    /\ UNCHANGED <<manager_cache, MINECRAFT_MODE, last_track_key, mc_resume_at,
                   mc_ignore_next_change, shown, btn_enabled, now, current, sessions,
                   late, armed>>

\* faulty variant: the skip does not cancel the timer
SkipKeepsTimer(mode, resume) == resume

\* faulty variant: the timer is cleared only with automation off
SkipResumeOnlyIfOff(mode, resume) == IF mode THEN resume ELSE None

\* lines 833-837 and 853-855: what a skip leaves in mc_resume_at
SkipResume(mode, resume) == IF mode THEN None ELSE resume

\* faulty variant: the skip sets the flag also with automation off
SkipIgnoreAlways(mode, ignore) == TRUE

\* lines 835 and 854
SkipIgnore(mode, ignore) == IF mode THEN TRUE ELSE ignore

\* faulty variant: no play after the skip
NoPlayAfterSkip(mode, had_timer) == FALSE

\* lines 842 and 859: play right away after the skip
PlaysAfterSkip(mode, had_timer) == mode /\ had_timer

\* prev (831-849) and next (851-866); a TimeoutError of the skip leaves the
\* try block for the handler of line 890
ClickSkip(action) ==
    IF ~btn_enabled[action] THEN Blocked(action)
    ELSE
        LET had_timer == mc_resume_at # None
            after == PlaysAfterSkip(MINECRAFT_MODE, had_timer)
        IN
        \E o1 \in SkipOracles :
            LET r1 == RunAction(manager_cache, action, o1, current, sessions) IN
            \E o2 \in (IF after /\ ~r1.timeout THEN ActionOracles ELSE {NoOracle}) :
                LET r2 == RunAction(r1.cache, "play", o2, current, r1.sessions)
                    plays == after /\ ~r1.timeout
                IN
                /\ mc_ignore_next_change' = SkipIgnore(MINECRAFT_MODE, mc_ignore_next_change)
                /\ mc_resume_at' = SkipResume(MINECRAFT_MODE, mc_resume_at)
                /\ manager_cache' = IF plays THEN r2.cache ELSE r1.cache
                /\ sessions' = IF plays THEN r2.sessions ELSE r1.sessions
                /\ late' = IF plays THEN late \o r2.late ELSE late \o r1.late
                /\ armed' = FALSE
                /\ ev' = Ev(action, TRUE, "none", None,
                            IF plays THEN <<Cmd(action, r1), Cmd("play", r2)>>
                            ELSE <<Cmd(action, r1)>>, FALSE)
                /\ UNCHANGED <<MINECRAFT_MODE, last_track_key, shown, btn_enabled, now,
                               current>>

ClickPrev == ClickSkip("prev")

ClickNext == ClickSkip("next")

\* line 870: a timer is running and the snapshot says paused
CancelsTimer(mode, resume, is_playing) == mode /\ resume # None /\ ~is_playing

\* play_pause (868-874)
ClickPlayPause ==
    IF ~btn_enabled.play_pause THEN Blocked("play_pause")
    ELSE
        LET cancel == CancelsTimer(MINECRAFT_MODE, mc_resume_at, shown.is_playing) IN
        \E o \in ActionOracles :
            LET r == RunAction(manager_cache, "play_pause", o, current, sessions) IN
            /\ mc_resume_at' = IF cancel THEN None ELSE mc_resume_at
            /\ manager_cache' = r.cache
            /\ sessions' = r.sessions
            /\ late' = late \o r.late
            /\ armed' = IF cancel THEN FALSE ELSE armed
            /\ ev' = Ev("play_pause", TRUE, "none", None, <<Cmd("play_pause", r)>>, cancel)
            /\ UNCHANGED <<MINECRAFT_MODE, last_track_key, mc_ignore_next_change, shown,
                           btn_enabled, now, current>>

\* faulty variant: the toggle leaves the timer running
ToggleKeepsTimer(resume) == resume

\* line 878
ToggleResume(resume) == None

\* mc (876-879)
ClickMc ==
    /\ MINECRAFT_MODE' = ~MINECRAFT_MODE
    /\ mc_resume_at' = ToggleResume(mc_resume_at)
    /\ mc_ignore_next_change' = FALSE
    /\ armed' = FALSE
    /\ ev' = Ev("mc", TRUE, "none", None, <<>>, FALSE)
    /\ UNCHANGED <<manager_cache, last_track_key, shown, btn_enabled, now, current,
                   sessions, late>>

(***************************************************************************)
(* The end of a frame: the Minecraft-mode timer check (src/main.py         *)
(* 949-964) and the enabling of the buttons from caps (975-978).           *)
(***************************************************************************)
Max(a, b) == IF a >= b THEN a ELSE b

\* faulty variant: the deadline is not looked at
TimerDueEarly(mode, resume, t) == mode /\ resume # None

\* lines 951-954
TimerDue(mode, resume, t) == mode /\ resume # None /\ Max(0, resume[1] - t) <= 0

\* line 963
AfterResume(resume) == None

FrameEnd ==
    LET due == TimerDue(MINECRAFT_MODE, mc_resume_at, now) IN
    \E o \in (IF due THEN ActionOracles ELSE {NoOracle}) :
        LET r == RunAction(manager_cache, "play", o, current, sessions) IN
        /\ manager_cache' = IF due THEN r.cache ELSE manager_cache
        /\ sessions' = IF due THEN r.sessions ELSE sessions
        /\ late' = IF due THEN late \o r.late ELSE late
        /\ mc_resume_at' = IF due THEN AfterResume(mc_resume_at) ELSE mc_resume_at
        /\ armed' = IF due THEN FALSE ELSE armed
        /\ btn_enabled' = Caps(shown.caps.play_pause, shown.caps.next, shown.caps.prev)
        /\ ev' = Ev("frame", FALSE, "none", None,
                    IF due THEN <<Cmd("play", r)>> ELSE <<>>, FALSE)
        /\ UNCHANGED <<MINECRAFT_MODE, last_track_key, mc_ignore_next_change, shown, now,
                       current>>

(***************************************************************************)
(* The environment: time passes, the media applications change what the OS *)
(* reports, the cached manager handle goes stale, and a coroutine left     *)
(* behind by a timeout finishes on the background loop.                    *)
(***************************************************************************)
Tick ==
    /\ now + TickSecs <= MaxTime
    /\ now' = now + TickSecs
    /\ ev' = Quiet("tick")
    /\ UNCHANGED <<manager_cache, MINECRAFT_MODE, last_track_key, mc_resume_at,
                   mc_ignore_next_change, shown, btn_enabled, current, sessions, late,
                   armed>>

OsChange ==
    /\ sessions' \in SpecSessions \ {sessions}
    /\ current' = Len(sessions')
    /\ ev' = Quiet("os")
    /\ UNCHANGED <<manager_cache, MINECRAFT_MODE, last_track_key, mc_resume_at,
                   mc_ignore_next_change, shown, btn_enabled, now, late, armed>>

ManagerGoesStale ==
    /\ manager_cache # None
    /\ manager_cache[1].health = "ok"
    /\ manager_cache' = Some([manager_cache[1] EXCEPT !.health = "cur_fails"])
    /\ ev' = Quiet("stale")
    /\ UNCHANGED <<MINECRAFT_MODE, last_track_key, mc_resume_at, mc_ignore_next_change,
                   shown, btn_enabled, now, current, sessions, late, armed>>

\* the sequence q without its i-th item
Without(q, i) == SubSeq(q, 1, i - 1) \o SubSeq(q, i + 1, Len(q))

\* faulty variant: the snapshot of a late query is put on display
LateApplied(sh, q) ==
    IF ~q.raised /\ Unpacks(q.tuple) THEN Shown(q.tuple) ELSE sh

\* fut.result(timeout) has raised at line 71 and the handler is gone: nobody
\* reads the future again, the display stays as it is
LateShown(sh, q) == sh

\* the coroutine runs to its end on the background loop: _ensure_session writes
\* manager_cache and the transport call reaches the session
LateComplete ==
    \E i \in 1..Len(late) :
        \E o \in SkipOracles :
            LET q == query_now_playing(manager_cache, o, current, sessions)
                r == smtc_action(manager_cache, late[i], o, current, sessions)
                isq == late[i] = "query"
            IN
            /\ o.timely
            /\ manager_cache' = IF isq THEN q.cache ELSE r.cache
            /\ sessions' = IF isq THEN sessions ELSE OsEffect(sessions, r, o)
            /\ late' = Without(late, i)
            /\ shown' = LateShown(shown, IF isq THEN q ELSE [raised |-> TRUE])
            /\ ev' = [Quiet("late") EXCEPT
                        !.sel = Some([action |-> late[i],
                                      ok |-> IF isq THEN ~q.raised ELSE r.ok,
                                      effect |-> sessions' # sessions])]
            /\ UNCHANGED <<MINECRAFT_MODE, last_track_key, mc_resume_at,
                           mc_ignore_next_change, btn_enabled, now, current, armed>>

Next ==
    \/ RefreshEvent
    \/ ClickPrev
    \/ ClickNext
    \/ ClickPlayPause
    \/ ClickMc
    \/ FrameEnd
    \/ Tick
    \/ OsChange
    \/ LateComplete

Spec == Init /\ [][Next]_vars

(***************************************************************************)
(* Properties of the delay-mode engine, under Spec.                        *)
(***************************************************************************)
\* the commands of the last handler whose action is a
Dispatched(e, a) == {i \in 1..Len(e.cmds) : e.cmds[i].action = a}

\* the last handler was a poll that detected a track change
Detected(e) ==
    /\ e.step = "refresh"
    /\ e.fetch = "ok"
    /\ e.pre.key # None
    /\ e.key # e.pre.key

\* C1: in every reachable state resumeAt is set if and only if the engine is
\* Armed: a detected track change was auto-paused with automation enabled, and
\* no auto-resume, user next/prev, manual-resume cancel or automation toggle
\* has happened since.
C1_ResumeIffArmed == (mc_resume_at # None) <=> armed

C1_Witness ==
    /\ armed
    /\ mc_resume_at # None
    /\ Detected(ev)
    /\ Dispatched(ev, "pause") # {}

\* C2: a poll whose fetch returns while automation is enabled, lastTrackKey is
\* set and differs from the fetched key, and ignoreNextChange is false,
\* dispatches exactly one pause and sets resumeAt to now + 300, whatever the
\* outcome of the pause.
C2_PollArms ==
    [][(/\ ev'.step = "refresh"
        /\ ev'.fetch \in {"ok", "unpack"}
        /\ MINECRAFT_MODE
        /\ ~mc_ignore_next_change
        /\ last_track_key # None
        /\ ev'.key # last_track_key)
       => (/\ Len(ev'.cmds) = 1
           /\ ev'.cmds[1].action = "pause"
           /\ mc_resume_at' = Some(now + MC_DELAY))]_vars

\* C3: no auto-resume play is dispatched before the deadline; the first timer
\* check at or after it dispatches exactly one play and clears resumeAt in the
\* same step, whatever the outcome of the play, and leaves the engine disarmed.
C3_TimerExact ==
    [][(ev'.step = "frame")
       => IF MINECRAFT_MODE /\ mc_resume_at # None /\ now >= mc_resume_at[1]
          THEN /\ Len(ev'.cmds) = 1
               /\ ev'.cmds[1].action = "play"
               /\ mc_resume_at' = None
               /\ ~armed'
          ELSE /\ ev'.cmds = <<>>
               /\ mc_resume_at' = mc_resume_at]_vars

C3_Witness ==
    /\ ev.step = "frame"
    /\ ev.pre.resume # None
    /\ now > ev.pre.resume[1]
    /\ Len(ev.cmds) = 1
    /\ ev.cmds[1].result = "timeout"
    /\ mc_resume_at = None

\* C4: a poll that detects a track change while ignoreNextChange is true
\* dispatches no pause, leaves resumeAt as it was, clears ignoreNextChange and
\* sets lastTrackKey to the new key; ignoreNextChange becomes true again only by
\* a user next/prev, and a detected change with ignoreNextChange false and
\* automation on is paused and armed.
C4_OverrideSuppression ==
    [][/\ (ev'.step = "refresh" /\ ev'.fetch = "ok" /\ last_track_key # None
             /\ ev'.key # last_track_key /\ mc_ignore_next_change)
          => (/\ ev'.cmds = <<>>
              /\ mc_resume_at' = mc_resume_at
              /\ ~mc_ignore_next_change'
              /\ last_track_key' = ev'.key)
       /\ (~mc_ignore_next_change /\ mc_ignore_next_change')
          => (ev'.step \in {"prev", "next"} /\ ev'.issued)
       /\ (ev'.step = "refresh" /\ ev'.fetch = "ok" /\ last_track_key # None
             /\ ev'.key # last_track_key /\ ~mc_ignore_next_change /\ MINECRAFT_MODE)
          => (Dispatched(ev', "pause") # {} /\ mc_resume_at' # None)]_vars

C4_Witness ==
    /\ Detected(ev)
    /\ ev.pre.ignore
    /\ ev.cmds = <<>>
    /\ ~mc_ignore_next_change
    /\ mc_resume_at = None
    /\ MINECRAFT_MODE

\* C5: a user next or prev issued while Armed sets ignoreNextChange and clears
\* resumeAt whatever becomes of the skip command, and when the skip succeeds
\* exactly one play is dispatched after it.
C5_SkipCancelsTimer ==
    [][(ev'.step \in {"prev", "next"} /\ ev'.issued /\ MINECRAFT_MODE
          /\ mc_resume_at # None)
       => (/\ mc_ignore_next_change'
           /\ mc_resume_at' = None
           /\ ev'.cmds[1].action = ev'.step
           /\ ev'.cmds[1].result = "ok"
              => (/\ Len(ev'.cmds) = 2
                  /\ ev'.cmds[2].action = "play"))]_vars

C5_Witness ==
    /\ ev.step = "next"
    /\ ev.issued
    /\ MINECRAFT_MODE
    /\ ev.pre.resume # None
    /\ Len(ev.cmds) = 2
    /\ ev.cmds[1].result = "ok"
    /\ mc_ignore_next_change
    /\ mc_resume_at = None

\* the session the transport commands go to is paused
ActuallyPaused == sessions # <<>> /\ sessions[Len(sessions)].status = "PAUSED"

\* C6: a playPause issued while Armed and the session is actually paused clears
\* resumeAt.
C6_ManualResumeCancels ==
    [][(ev'.step = "play_pause" /\ ev'.issued /\ MINECRAFT_MODE
          /\ mc_resume_at # None /\ ActuallyPaused)
       => mc_resume_at' = None]_vars

\* C7: after every poll whose fetch succeeds lastTrackKey is the key of the
\* fetched snapshot, also when lastTrackKey was unset before the poll.
C7_KeyFollowsFetch ==
    [][(ev'.step = "refresh" /\ ev'.fetch = "ok")
       => last_track_key' = ev'.key]_vars

\* C8: toggling automation off clears resumeAt and ignoreNextChange and
\* dispatches nothing; toggling it on leaves resumeAt unset; resumeAt becomes
\* set only by a poll that detects a track change.
C8_Toggle ==
    [][/\ (ev'.step = "mc")
          => (/\ MINECRAFT_MODE' = ~MINECRAFT_MODE
              /\ mc_resume_at' = None
              /\ ~mc_ignore_next_change'
              /\ ev'.cmds = <<>>
              /\ sessions' = sessions
              /\ late' = late
              /\ manager_cache' = manager_cache)
       /\ (mc_resume_at = None /\ mc_resume_at' # None)
          => (/\ ev'.step = "refresh"
              /\ ev'.fetch = "ok"
              /\ last_track_key # None
              /\ ev'.key # last_track_key)]_vars

C8_Witness ==
    /\ ev.step = "mc"
    /\ ~MINECRAFT_MODE
    /\ ev.pre.resume # None
    /\ mc_resume_at = None
    /\ ~mc_ignore_next_change

\* C12: a poll that finds no session (the manager answers and has no session)
\* completes without an exception and replaces the displayed snapshot by the
\* Nothing-playing snapshot: title "Nothing playing", isPlaying false, all
\* capabilities false, no cover.
C12_NoSessionPoll ==
    [][(/\ ev'.step = "refresh"
        /\ ev'.fetch \notin {"timeout", "raised"}
        /\ current = NoSession
        /\ sessions = <<>>)
       => (/\ ev'.fetch = "ok"
           /\ shown'.title = "Nothing playing"
           /\ ~shown'.is_playing
           /\ shown'.caps = Caps(FALSE, FALSE, FALSE)
           /\ shown'.cover_surf = None)]_vars

(***************************************************************************)
(* Properties of the bridge between the UI loop and the background loop,   *)
(* under Spec.                                                             *)
(***************************************************************************)
\* the handlers of the UI loop that call runner.run
UiSteps == {"refresh", "prev", "next", "play_pause", "frame"}

IsTimeout(c) == c.result = "timeout"

\* the operations whose submit timed out in the handler e, in submission order
TimedOut(e) ==
    IF e.fetch = "timeout" THEN <<"query">>
    ELSE [i \in 1..Len(SelectSeq(e.cmds, IsTimeout)) |->
            SelectSeq(e.cmds, IsTimeout)[i].action]

\* C15: submit returns with the operation's result if the operation completed
\* in time, its effect on the OS session then being in place, and with a
\* timeout failure otherwise; an operation whose submit timed out is not
\* cancelled: it stays on the background loop, has had no effect when submit
\* returns, leaves the loop only by running to completion, and then has its
\* effect on the OS session.
C15_SubmitTimeout ==
    [][/\ ev'.step \in UiSteps => late' = late \o TimedOut(ev')
       /\ (ev'.step \in {"play_pause", "frame"} /\ ev'.cmds # <<>>)
          => /\ Len(ev'.cmds) = 1
             /\ ev'.cmds[1].result = "timeout"
                => (sessions' = sessions /\ manager_cache' = manager_cache)
             /\ (ev'.cmds[1].result = "ok" /\ ev'.step = "frame")
                => (sessions' # <<>> /\ sessions'[current].status = "PLAYING")
             /\ ev'.cmds[1].result = "failed" => sessions' = sessions
       /\ Len(late') < Len(late) => ev'.step = "late"
       /\ ev'.step = "late"
          => \E i \in 1..Len(late) :
                /\ late' = Without(late, i)
                /\ ev'.sel[1].action = late[i]]_vars

C15_Witness ==
    /\ ev.step = "late"
    /\ ev.sel[1].action = "pause"
    /\ ev.sel[1].ok
    /\ ev.sel[1].effect
    /\ sessions # <<>>
    /\ sessions[current].status = "PAUSED"
    /\ mc_resume_at # None
    /\ late = <<>>

\* C16: the result of an operation that completes after its submit timed out
\* is discarded: its completion changes neither the displayed snapshot nor
\* lastTrackKey, resumeAt, ignoreNextChange; the displayed snapshot changes only
\* in a poll whose own fetch returned, and the snapshot such a poll applies is
\* the one of the session as it is at that poll, so snapshots are applied in
\* the order their polls were submitted.
C16_LateDiscarded ==
    [][/\ ev'.step = "late"
          => UNCHANGED <<shown, btn_enabled, last_track_key, mc_resume_at,
                         mc_ignore_next_change, MINECRAFT_MODE>>
       /\ shown' # shown => (ev'.step = "refresh" /\ ev'.fetch = "ok")
       /\ (ev'.step = "refresh" /\ ev'.fetch = "ok")
          => /\ current # NoSession
             /\ shown' = Shown(SessionTuple(sessions[current]))]_vars

C16_Witness ==
    /\ ev.step = "late"
    /\ ev.sel[1].action = "query"
    /\ ev.sel[1].ok
    /\ sessions # <<>>
    /\ sessions[current].track = TrackB
    /\ shown.title = "A"
    /\ last_track_key = Some("A|X|App")

\* C17: the cached manager handle and the automation state are written only by
\* the UI thread after a bridge call has returned: the completion of an
\* operation left on the background loop by a timeout writes none of them.
C17_WrittenByUiThread ==
    [][ev'.step = "late"
       => UNCHANGED <<manager_cache, MINECRAFT_MODE, last_track_key, mc_resume_at,
                      mc_ignore_next_change>>]_vars

\* the handler e submitted an operation to the background loop
Submits(e) == e.step \in UiSteps /\ (e.fetch # "none" \/ e.cmds # <<>>)

\* C18: no two operations submitted by the UI loop are in progress on the
\* background loop at the same time: when one is submitted, every earlier one
\* has finished.
C18_OneAtATime == [][Submits(ev') => late = <<>>]_vars

\* C19: a poll whose bridge call fails or times out leaves the displayed
\* snapshot (title, artist, source, capabilities, isPlaying, cover),
\* lastTrackKey, resumeAt and ignoreNextChange as they were and dispatches no
\* command.
C19_FailedPoll ==
    [][(ev'.step = "refresh" /\ ev'.fetch \in {"timeout", "raised"})
       => (/\ UNCHANGED <<shown, btn_enabled, last_track_key, mc_resume_at,
                          mc_ignore_next_change, MINECRAFT_MODE, armed, sessions>>
           /\ ev'.cmds = <<>>)]_vars

C19_Witness ==
    /\ ev.step = "refresh"
    /\ ev.fetch = "timeout"
    /\ late = <<"query">>
    /\ mc_resume_at # None
    /\ shown.title = "A"
    /\ sessions # <<>>
    /\ sessions[current].track = TrackB

(***************************************************************************)
(* Further properties of the delay-mode engine, under Spec.                *)
(***************************************************************************)
\* C25: whenever a user next or prev clears a pending resumeAt, a play command
\* is dispatched in the handling of that same click, whatever the outcome of
\* the skip.
C25_PlayAfterSkip ==
    [][(/\ ev'.step \in {"prev", "next"}
        /\ ev'.issued
        /\ mc_resume_at # None
        /\ mc_resume_at' = None)
       => Dispatched(ev', "play") # {}]_vars

\* the skip command of the click e did not go through: refused, failed or
\* timed out
SkipFailed(e) ==
    /\ e.step \in {"prev", "next"}
    /\ e.issued
    /\ e.cmds[1].result # "ok"

\* C26: a user skip issued with automation enabled that fails, is denied or
\* times out does not leave ignoreNextChange set, so that the next track change,
\* made by the media application itself, is paused and armed.
C26_FailedSkipNoSuppress ==
    [][(SkipFailed(ev') /\ MINECRAFT_MODE /\ ~mc_ignore_next_change)
       => ~mc_ignore_next_change']_vars

\* the commands of the handler e are the user's own command and nothing else
OnlyUserCommand(e) ==
    IF e.step \in {"prev", "next", "play_pause"} /\ e.issued
    THEN Len(e.cmds) = 1 /\ e.cmds[1].action = e.step
    ELSE e.cmds = <<>>

\* C27: in every reachable state, while automation is disabled resumeAt is
\* unset and ignoreNextChange is false; polls, user skips, playPause clicks and
\* timer checks made while automation is disabled dispatch no automation
\* command (no auto-pause, no auto-resume, no play after skip) and leave both
\* fields unchanged.
C27_DisabledIsIdle ==
    /\ [](~MINECRAFT_MODE => (mc_resume_at = None /\ ~mc_ignore_next_change))
    /\ [][(~MINECRAFT_MODE /\ ev'.step \in UiSteps)
          => (/\ OnlyUserCommand(ev')
              /\ mc_resume_at' = mc_resume_at
              /\ mc_ignore_next_change' = mc_ignore_next_change
              /\ ~armed')]_vars

C27_Witness ==
    /\ ~MINECRAFT_MODE
    /\ Detected(ev)
    /\ ev.cmds = <<>>
    /\ mc_resume_at = None
    /\ ~mc_ignore_next_change
    /\ last_track_key = ev.key

\* C28: in every reachable state ignoreNextChange and resumeAt are never both
\* set: a user skip that sets ignoreNextChange leaves resumeAt unset, and a
\* poll that sets resumeAt leaves ignoreNextChange false.
C28_NeverBoth == ~(mc_ignore_next_change /\ mc_resume_at # None)

C28_Witness ==
    /\ ev.step \in {"prev", "next"}
    /\ ev.issued
    /\ ev.pre.resume # None
    /\ ~ev.pre.ignore
    /\ mc_ignore_next_change
    /\ mc_resume_at = None

\* C29: at most one auto-resume is pending: a track change detected while
\* already Armed (ignoreNextChange false) dispatches one more pause and replaces
\* resumeAt by now + delay; an auto-resume play is dispatched only by a timer
\* check at or after the deadline that is pending then, which clears it, so the
\* replaced deadline never fires and one play ends the whole run of re-armings.
C29_OnePending ==
    [][/\ (/\ ev'.step = "refresh"
           /\ ev'.fetch = "ok"
           /\ last_track_key # None
           /\ ev'.key # last_track_key
           /\ MINECRAFT_MODE
           /\ ~mc_ignore_next_change
           /\ mc_resume_at # None)
          => (/\ Len(ev'.cmds) = 1
              /\ ev'.cmds[1].action = "pause"
              /\ mc_resume_at' = Some(now + MC_DELAY)
              /\ armed')
       /\ (ev'.step = "frame" /\ ev'.cmds # <<>>)
          => (/\ mc_resume_at # None
              /\ now >= mc_resume_at[1]
              /\ Len(ev'.cmds) = 1
              /\ mc_resume_at' = None)
       /\ (ev'.step = "frame" /\ mc_resume_at # None /\ now < mc_resume_at[1])
          => (ev'.cmds = <<>> /\ mc_resume_at' = mc_resume_at)]_vars

C29_Witness ==
    /\ Detected(ev)
    /\ MINECRAFT_MODE
    /\ ev.pre.resume # None
    /\ now >= ev.pre.resume[1]
    /\ Len(ev.cmds) = 1
    /\ mc_resume_at = Some(now + MC_DELAY)

(***************************************************************************)
(* The UI loop over sessions that do not allow every command: the same     *)
(* handlers as in Spec, the media applications now also disabling next and *)
(* previous, or every control.  The clock stands still: the clicks looked  *)
(* at happen within the frames of one instant, a timer may be pending but  *)
(* does not come due.                                                      *)
(***************************************************************************)
CapSessions ==
    {<<>>, <<Session(TrackA, "PLAYING", CtlAll)>>, <<Session(TrackB, "PLAYING", CtlNoSkip)>>,
     <<Session(TrackB, "PLAYING", CtlOff)>>}

InitCaps ==
    /\ MINECRAFT_MODE = FALSE
    /\ mc_resume_at = None
    /\ mc_ignore_next_change = FALSE
    /\ btn_enabled = Caps(TRUE, TRUE, TRUE)
    /\ now = 0
    /\ armed = FALSE
    /\ sessions \in CapSessions
    /\ current = Len(sessions)
    /\ \E oq \in {Oracle(TRUE, a, a, "ok", TrackA) : a \in {None, Some(H0)}}
                 \cup {Oracle(FALSE, None, None, "refused", TrackA)} :
           InitialQuery(oq, sessions)

OsChangeCaps ==
    /\ sessions' \in CapSessions \ {sessions}
    /\ current' = Len(sessions')
    /\ ev' = Quiet("os")
    /\ UNCHANGED <<manager_cache, MINECRAFT_MODE, last_track_key, mc_resume_at,
                   mc_ignore_next_change, shown, btn_enabled, now, late, armed>>

NextCaps ==
    \/ RefreshEvent
    \/ ClickPrev
    \/ ClickNext
    \/ ClickPlayPause
    \/ ClickMc
    \/ FrameEnd
    \/ OsChangeCaps
    \/ LateComplete

SpecCaps == InitCaps /\ [][NextCaps]_vars

\* C30: a click on prev, next or play_pause while the corresponding capability
\* in the last applied snapshot is false dispatches no command and leaves
\* resumeAt, ignoreNextChange and lastTrackKey unchanged, also while Armed.
C30_DisabledClick ==
    [][(ev'.step \in {"prev", "next", "play_pause"} /\ ~shown.caps[ev'.step])
       => (/\ ev'.cmds = <<>>
           /\ mc_resume_at' = mc_resume_at
           /\ mc_ignore_next_change' = mc_ignore_next_change
           /\ last_track_key' = last_track_key)]_vars

(***************************************************************************)
(* Session selection on its own: _ensure_session applied to every manager  *)
(* state (a cached handle of any health or none, any list of up to         *)
(* MaxSessions sessions with any statuses, any current session) and every  *)
(* answer of the OS to the _get_manager calls.                             *)
(***************************************************************************)
\* a session as selection sees it: its status, and whether reading it raises
SelSessions ==
    {[Session(TrackA, st, CtlAll) EXCEPT !.pbi_ok = b] :
        st \in {"PLAYING", "PAUSED"}, b \in BOOLEAN}

RECURSIVE SeqsUpTo(_, _)
SeqsUpTo(S, n) ==
    IF n = 0 THEN {<<>>}
    ELSE SeqsUpTo(S, n - 1)
            \cup {Append(q, x) : q \in {r \in SeqsUpTo(S, n - 1) : Len(r) = n - 1}, x \in S}

InitSel ==
    /\ MINECRAFT_MODE = FALSE
    /\ last_track_key = None
    /\ mc_resume_at = None
    /\ mc_ignore_next_change = FALSE
    /\ shown = Loading
    /\ btn_enabled = Caps(TRUE, TRUE, TRUE)
    /\ now = 0
    /\ late = <<>>
    /\ armed = FALSE
    /\ manager_cache \in {None} \cup {Some(Handle(0, h)) : h \in Health}
    /\ sessions \in SeqsUpTo(SelSessions, MaxSessions)
    /\ current \in 0..Len(sessions)
    /\ ev = [Quiet("start") EXCEPT !.pre = [resume |-> None, ignore |-> FALSE, key |-> None]]

\* the first _get_manager call of a coroutine answers with handle 1, the second
\* with handle 2, of any health, or raises
SelOracles ==
    {Oracle(TRUE, a1, a2, "ok", TrackA) :
        a1 \in {None} \cup {Some(Handle(1, h)) : h \in Health},
        a2 \in {None} \cup {Some(Handle(2, h)) : h \in Health}}

SelectSession ==
    \E o \in SelOracles :
        LET e == _ensure_session(manager_cache, o, current, sessions) IN
        /\ manager_cache' = e.cache
        /\ ev' = [Quiet("select") EXCEPT
                    !.sel = Some([raised |-> e.raised, session |-> e.session,
                                  attempts |-> e.attempts, acquires |-> e.acquires,
                                  cache0 |-> manager_cache, acq1 |-> o.acq1,
                                  acq2 |-> o.acq2])]
        /\ UNCHANGED <<MINECRAFT_MODE, last_track_key, mc_resume_at,
                       mc_ignore_next_change, shown, btn_enabled, now, current, sessions,
                       late, armed>>

NextSel == SelectSession

SpecSel == InitSel /\ [][NextSel]_vars

\* the sessions whose status reads Playing
PlayingAt(ss) == {i \in 1..Len(ss) : ss[i].pbi_ok /\ ss[i].status = "PLAYING"}

\* the fallback order of the specification
Expected(cur, ss) ==
    IF cur # 0 THEN cur
    ELSE IF PlayingAt(ss) # {}
    THEN CHOOSE i \in PlayingAt(ss) : \A j \in PlayingAt(ss) : i <= j
    ELSE IF Len(ss) > 0 THEN 1
    ELSE 0

\* a selection attempt on a handle of health h fails
FailsOn(h, cur) == h = "cur_fails" \/ (h = "enum_fails" /\ cur = 0)

\* C9: a selection that succeeds returns the manager's current session if
\* there is one, otherwise the first session whose status is Playing, otherwise
\* the first session, otherwise none.
C9_FallbackOrder ==
    (ev.sel # None /\ ~ev.sel[1].raised)
        => ev.sel[1].session = Expected(current, sessions)

C9_Witness ==
    /\ ev.sel # None
    /\ ~ev.sel[1].raised
    /\ current = 0
    /\ Len(sessions) = 2
    /\ sessions[1].status = "PAUSED"
    /\ PlayingAt(sessions) = {2}
    /\ ev.sel[1].session = 2

\* the handle the first selection attempt of the last call was made on
FirstHandle(x) == IF x.cache0 = None THEN x.acq1 ELSE x.cache0

FirstFailed(x) == FirstHandle(x) # None /\ FailsOn(FirstHandle(x)[1].health, current)

C23_HandleKept ==
    ev.sel # None =>
        LET x == ev.sel[1] IN
        /\ (x.cache0 # None /\ ~FirstFailed(x))
           => (/\ x.acquires = <<>>
               /\ x.attempts = 1
               /\ ~x.raised
               /\ manager_cache = x.cache0)
        /\ manager_cache # x.cache0 => (x.cache0 = None \/ FirstFailed(x))

C23_Witness ==
    /\ ev.sel # None
    /\ ev.sel[1].cache0 = Some(Handle(0, "enum_fails"))
    /\ current # NoSession
    /\ ev.sel[1].acquires = <<>>
    /\ ev.sel[1].session = current
    /\ manager_cache = ev.sel[1].cache0

\* C11: selectSession never raises: when the retry of a failed selection also
\* fails, or the manager handle cannot be acquired, the call returns none.
C11_NeverRaises == ev.sel # None => ~ev.sel[1].raised

(***************************************************************************)
(* The snapshot fetch on its own: query_now_playing applied to every       *)
(* manager state (no handle, a healthy one, a stale one), to no session or *)
(* one session whose metadata, source, playback-info and thumbnail queries *)
(* succeed or raise, and to every answer of the OS to _get_manager.        *)
(***************************************************************************)
Thumbs == {"absent", "stream_err", "empty", "png", "webp", "junk"}

FetchTracks == {TrackA, TrackB, TrackU} \cup {[TrackA EXCEPT !.thumb = th] : th \in Thumbs}

FetchSessions ==
    {[Session(t, st, c) EXCEPT !.props_ok = p, !.pbi_ok = b, !.disp_ok = d] :
        t \in FetchTracks, st \in {"PLAYING", "PAUSED"},
        c \in {CtlAll, CtlNoSkip, CtlOff, CtlAbsent},
        p \in BOOLEAN, b \in BOOLEAN, d \in BOOLEAN}

InitFetch ==
    /\ MINECRAFT_MODE = FALSE
    /\ last_track_key = None
    /\ mc_resume_at = None
    /\ mc_ignore_next_change = FALSE
    /\ shown = Loading
    /\ btn_enabled = Caps(TRUE, TRUE, TRUE)
    /\ now = 0
    /\ late = <<>>
    /\ armed = FALSE
    /\ manager_cache \in {None, Some(H0), Some(Handle(0, "cur_fails"))}
    /\ sessions \in {<<>>} \cup {<<s>> : s \in FetchSessions}
    /\ current \in {NoSession, Len(sessions)}
    /\ ev = [Quiet("start") EXCEPT !.pre = [resume |-> None, ignore |-> FALSE, key |-> None]]

FetchOracles ==
    {Oracle(TRUE, a1, a2, "ok", TrackA) :
        a1 \in {None, Some(Handle(1, "ok"))}, a2 \in {None, Some(Handle(2, "ok"))}}

\* await query_now_playing(manager_cache) on the background loop
Fetch ==
    \E o \in FetchOracles :
        LET q == query_now_playing(manager_cache, o, current, sessions) IN
        /\ manager_cache' = q.cache
        /\ ev' = [Quiet("fetch") EXCEPT
                    !.sel = Some([raised |-> q.raised, tuple |-> q.tuple,
                                  session |-> q.session, queries |-> q.queries,
                                  decoders |-> IF q.session = NoSession THEN <<>>
                                               ELSE CoverSteps(sessions[q.session]).tried])]
        /\ UNCHANGED <<MINECRAFT_MODE, last_track_key, mc_resume_at,
                       mc_ignore_next_change, shown, btn_enabled, now, current, sessions,
                       late, armed>>

NextFetch == Fetch

SpecFetch == InitFetch /\ [][NextFetch]_vars

\* the last step was a fetch that returned
Fetched == ev.step = "fetch" /\ ~ev.sel[1].raised

Selected == sessions[ev.sel[1].session]

\* C20: when the playback-status / capability query of the selected session
\* fails, the fetch still returns a snapshot, with capabilities playPause, next
\* and prev all true and isPlaying false, and with the title, artist, source,
\* cover and thumbnail flag that the other queries give (their own fallbacks
\* when they fail too).
C20_CapabilityDefaults ==
    (ev.step = "fetch" /\ ev.sel[1].session # NoSession /\ ~Selected.pbi_ok)
        => LET t == ev.sel[1].tuple
               tr == Selected.track
           IN
           /\ ~ev.sel[1].raised
           /\ Len(t) = 7
           /\ t[4] = Caps(TRUE, TRUE, TRUE)
           /\ t[5] = FALSE
           /\ t[1] = (IF Selected.props_ok /\ tr.title # "" THEN tr.title
                      ELSE "Unknown Title")
           /\ t[2] = (IF ~Selected.props_ok THEN ""
                      ELSE IF tr.artist # "" THEN tr.artist ELSE tr.album_artist)
           /\ t[3] = (IF Selected.disp_ok THEN tr.source ELSE "")
           /\ t[6] = (IF Selected.props_ok /\ tr.thumb \in {"png", "webp"}
                      THEN Some(IF tr.thumb = "png" THEN "pygame" ELSE "pillow")
                      ELSE None)
           /\ t[7] = (Selected.props_ok /\ tr.thumb # "absent")

C20_Witness ==
    /\ ev.step = "fetch"
    /\ ev.sel[1].session # NoSession
    /\ ~Selected.pbi_ok
    /\ Selected.props_ok
    /\ Selected.ctl = CtlOff
    /\ Selected.status = "PLAYING"
    /\ ev.sel[1].tuple[1] = "B"
    /\ ev.sel[1].tuple[4] = Caps(TRUE, TRUE, TRUE)
    /\ ev.sel[1].tuple[5] = FALSE
    /\ ev.sel[1].tuple[6] = Some("pillow")

(***************************************************************************)
(* The command dispatch on its own: smtc_action applied to every action of *)
(* the vocabulary and an unknown one, to every manager state, to no        *)
(* session or one session with any control flags, with or without the      *)
(* combined toggle, whose playback info reads or raises, and to every      *)
(* answer of the OS to _get_manager and to the transport call.             *)
(***************************************************************************)
Actions == {"play", "pause", "play_pause", "next", "prev", "refresh", "stop"}

Flags == {"T", "F", "absent"}

ActCtls ==
    {[play |-> a, pause |-> b, next |-> "T", prev |-> "T", toggle |-> "T"] :
        a \in Flags, b \in Flags}
    \cup {[play |-> "T", pause |-> "T", next |-> a, prev |-> b, toggle |-> "T"] :
            a \in Flags, b \in Flags}

ActSessions ==
    {[Session(TrackA, st, c) EXCEPT !.has_toggle = g, !.pbi_ok = b] :
        st \in {"PLAYING", "PAUSED"}, c \in ActCtls, g \in BOOLEAN, b \in BOOLEAN}

InitAct ==
    /\ MINECRAFT_MODE = FALSE
    /\ last_track_key = None
    /\ mc_resume_at = None
    /\ mc_ignore_next_change = FALSE
    /\ shown = Loading
    /\ btn_enabled = Caps(TRUE, TRUE, TRUE)
    /\ now = 0
    /\ late = <<>>
    /\ armed = FALSE
    /\ manager_cache \in {None, Some(H0), Some(Handle(0, "cur_fails"))}
    /\ sessions \in {<<>>} \cup {<<s>> : s \in ActSessions}
    /\ current \in {NoSession, Len(sessions)}
    /\ ev = [Quiet("start") EXCEPT !.pre = [resume |-> None, ignore |-> FALSE, key |-> None]]

ActOracles ==
    {Oracle(TRUE, a1, a2, k, TrackA) :
        a1 \in {None, Some(Handle(1, "ok")), Some(Handle(1, "cur_fails"))},
        a2 \in {None, Some(Handle(2, "ok")), Some(Handle(2, "cur_fails"))},
        k \in Acks}

\* await smtc_action(manager_cache, action) on the background loop
Dispatch ==
    \E action \in Actions, o \in ActOracles :
        LET r == smtc_action(manager_cache, action, o, current, sessions) IN
        /\ ev.step = "start"
        /\ manager_cache' = r.cache
        /\ sessions' = OsEffect(sessions, r, o)
        /\ ev' = [Quiet("dispatch") EXCEPT
                    !.sel = Some([action |-> action, raised |-> r.raised, ok |-> r.ok,
                                  msg |-> r.msg, call |-> r.call, session |-> r.session,
                                  cache0 |-> manager_cache, acq1 |-> o.acq1,
                                  acq2 |-> o.acq2, ack |-> o.ack, before |-> sessions])]
        /\ UNCHANGED <<MINECRAFT_MODE, last_track_key, mc_resume_at,
                       mc_ignore_next_change, shown, btn_enabled, now, current, late,
                       armed>>

NextAct == Dispatch

SpecAct == InitAct /\ [][NextAct]_vars

\* the OS API failed during the dispatch x in a way the call does not recover
\* from: the manager cannot be acquired, the selection fails and so does its one
\* retry, the playback info of the selected session cannot be read, or the
\* transport call raises
ApiFailed(x) ==
    IF x.action = "refresh" THEN x.acq1 = None
    ELSE \/ FirstHandle(x) = None
         \/ FirstFailed(x) /\ (x.acq2 = None \/ FailsOn(x.acq2[1].health, current))
         \/ x.session # NoSession /\ ~x.before[x.session].pbi_ok
         \/ x.call # "none" /\ x.ack = "raise"

\* C14: for every action (play, pause, play_pause, next, prev, refresh or an
\* unknown one) dispatch never raises and returns a pair (ok, message); when the
\* OS API fails during the call (manager acquisition, session selection,
\* playback-info read, transport call) the pair is (false, message).
C14_DispatchNeverRaises ==
    ev.step = "dispatch"
        => /\ ~ev.sel[1].raised
           /\ ev.sel[1].ok \in BOOLEAN
           /\ ev.sel[1].msg # ""
           /\ ApiFailed(ev.sel[1]) => (~ev.sel[1].ok /\ sessions = ev.sel[1].before)

C14_Witness ==
    /\ ev.step = "dispatch"
    /\ ev.sel[1].action = "next"
    /\ ev.sel[1].call = "next"
    /\ ev.sel[1].ack = "raise"
    /\ FirstFailed(ev.sel[1])
    /\ ~ev.sel[1].raised
    /\ ~ev.sel[1].ok
    /\ ev.sel[1].msg = "RuntimeError: call"

\* the last step was a dispatch of action a that selected a session whose
\* playback info reads
ActedOn(a) ==
    /\ ev.step = "dispatch"
    /\ ev.sel[1].action = a
    /\ ev.sel[1].session # NoSession
    /\ ev.sel[1].before[ev.sel[1].session].pbi_ok

\* the session the last dispatch acted on, as it was before the call
Target == ev.sel[1].before[ev.sel[1].session]

\* the result of the last dispatch reflects the acknowledgment of its one
\* transport call, which was call c
Reflects(c) ==
    /\ ev.sel[1].call = c
    /\ ev.sel[1].ok = (ev.sel[1].ack = "ok")
    /\ ev.sel[1].ack # "ok" => sessions = ev.sel[1].before

\* the last dispatch failed with message m without a transport call
FailsFast(m) ==
    /\ ev.sel[1].call = "none"
    /\ ~ev.sel[1].ok
    /\ ev.sel[1].msg = m
    /\ sessions = ev.sel[1].before

\* C21: dispatch of next (resp. prev) on a session whose next (resp. previous)
\* capability flag is false returns failure without making the skip call; when
\* the flag is true or not exposed the skip call is made, once, and the result
\* reflects its acknowledgment.
C21_SkipFailFast ==
    /\ ActedOn("next")
       => IF Target.ctl.next = "F"
          THEN FailsFast("Next not supported for this content")
          ELSE Reflects("next")
    /\ ActedOn("prev")
       => IF Target.ctl.prev = "F"
          THEN FailsFast("Previous not supported for this content")
          ELSE Reflects("prev")

C21_Witness ==
    /\ ActedOn("prev")
    /\ Target.ctl.prev = "absent"
    /\ Target.ctl.next = "F"
    /\ ev.sel[1].call = "prev"
    /\ ev.sel[1].ok
    /\ ev.sel[1].msg = "Previous"

\* a control flag that does not say "disabled"
Enabled(f) == f # "F"

\* C22: dispatch of playPause makes at most one transport call: the combined
\* toggle if the session exposes one; otherwise it fails when neither play nor
\* pause is enabled, pauses when the status is Playing and pause is enabled,
\* else plays when play is enabled, else fails with "currently disabled".
C22_PlayPause ==
    ActedOn("play_pause")
        => IF Target.has_toggle THEN Reflects("toggle")
           ELSE IF ~Enabled(Target.ctl.play) /\ ~Enabled(Target.ctl.pause)
           THEN FailsFast("Play/Pause not supported by this app/content")
           ELSE IF Target.status = "PLAYING" /\ Enabled(Target.ctl.pause)
           THEN /\ Reflects("pause")
                /\ ev.sel[1].ok => sessions[ev.sel[1].session].status = "PAUSED"
           ELSE IF Enabled(Target.ctl.play)
           THEN /\ Reflects("play")
                /\ ev.sel[1].ok => sessions[ev.sel[1].session].status = "PLAYING"
           ELSE FailsFast("Play/Pause currently disabled")

C22_Witness ==
    /\ ActedOn("play_pause")
    /\ ~Target.has_toggle
    /\ Target.status = "PAUSED"
    /\ Target.ctl.play = "F"
    /\ Target.ctl.pause = "T"
    /\ ev.sel[1].call = "none"
    /\ ev.sel[1].msg = "Play/Pause currently disabled"

\* C24: thumbnail decoding tries the primary decoder first and the secondary
\* decoder only when the primary fails: bytes decodable by the primary yield its
\* image with no further attempt, bytes decodable only by the secondary yield
\* an image, bytes decodable by neither yield none, a missing thumbnail
\* reference, a zero-length read and a failing stream or metadata query yield
\* none with no decoder tried, and the fetch is not made to raise.
C24_DecoderChain ==
    (ev.step = "fetch" /\ ev.sel[1].session # NoSession)
        => LET th == Selected.track.thumb
               cover == ev.sel[1].tuple[6]
               tried == ev.sel[1].decoders
           IN
           /\ ~ev.sel[1].raised
           /\ IF ~Selected.props_ok \/ th \in {"absent", "empty", "stream_err"}
              THEN cover = None /\ tried = <<>>
              ELSE IF th = "png" THEN cover = Some("pygame") /\ tried = <<"pygame">>
              ELSE IF th = "webp"
              THEN cover = Some("pillow") /\ tried = <<"pygame", "pillow">>
              ELSE cover = None /\ tried = <<"pygame", "pillow">>

C24_Witness ==
    /\ ev.step = "fetch"
    /\ ev.sel[1].session # NoSession
    /\ Selected.props_ok
    /\ Selected.track.thumb = "webp"
    /\ ev.sel[1].tuple[6] = Some("pillow")
    /\ ev.sel[1].decoders = <<"pygame", "pillow">>
    /\ ev.sel[1].tuple[7]

=============================================================================
